---- MODULE Spec2Model ----
(***************************************************************************)
(* Model of pkg/lint/runner.go: Runner.Run drives every configured linter  *)
(* through runLinterSafe, merges the issues, and hands the merged slice to *)
(* processLintResults, which runs the processor chain (processIssues) and  *)
(* then calls Finish on every processor.                                   *)
(*                                                                         *)
(* A Go slice is modelled as a record [isNil, elems] so that a nil slice   *)
(* and an empty non-nil slice are different values.  A Go error is a       *)
(* record [kind, engine]; kind "nil" is the nil error.                     *)
(***************************************************************************)
EXTENDS Integers, Sequences, FiniteSets, TLC

\* ---------------------------------------------------------------- bounds
MaxEngines == 2
MaxEngineIssues == 2
MaxProcs == 2

\* The engines of a run are the first n of this list; the second one has an
\* empty name.
LinterName(k) ==
  CASE k = 1 -> "govet"
    [] k = 2 -> ""
    [] OTHER -> "errcheck"
LinterLists == { [k \in 1..n |-> LinterName(k)] : n \in 0..MaxEngines }

\* The chain NewRunner builds, each stage named after its constructor.
NewRunnerProcessors ==
  <<"Cgo", "FilenameUnadjuster", "PathPrettifier", "SkipFiles", "SkipDirs",
    "AutogeneratedExclude", "IdentifierMarker", "Exclude", "ExcludeRules",
    "Nolint", "UniqByLine", "Diff", "MaxPerFileFromLinter", "MaxSameIssues",
    "MaxFromLinter", "SourceCode", "PathShortener">>

\* The chains of a run: the first n stages of NewRunner's chain, or those
\* with the last stage carrying the same name as the first.
ProcessorChains ==
  { SubSeq(NewRunnerProcessors, 1, n) : n \in 0..MaxProcs } \cup
  { [k \in 1..n |-> IF k = n THEN NewRunnerProcessors[1]
                              ELSE NewRunnerProcessors[k]] : n \in 2..MaxProcs }

EnvValues == {"", "1"}

\* ---------------------------------------------------------------- values
NilSlice == [isNil |-> TRUE, elems |-> <<>>]
Slice(s) == [isNil |-> FALSE, elems |-> s]
len(sl) == Len(sl.elems)

NilErr == [kind |-> "nil", engine |-> 0]
ReturnedErr(i) == [kind |-> "returned", engine |-> i]
PanicOccurredErr(i) == [kind |-> "panic occurred", engine |-> i]

\* The issues the i-th engine can produce: ids are unique per engine and
\* position; the engine sets FromLinter itself on every second issue and
\* leaves it empty on the others.
EngineTag(k) == IF k % 2 = 0 THEN "meta" ELSE ""
IssueId(i, k) == (i - 1) * (MaxEngineIssues + 1) + k
EngineIssues(i, n) ==
  [k \in 1..n |-> [id |-> IssueId(i, k), FromLinter |-> EngineTag(k)]]
EngineOutputs(i) ==
  {NilSlice} \cup { Slice(EngineIssues(i, n)) : n \in 1..MaxEngineIssues }

\* What an engine may hand back together with a non-nil error.
EngineErrorOutputs(i) ==
  {NilSlice, Slice(EngineIssues(i, 1))}

EngineKinds == {"ok", "error", "panicDiagnosed", "panicOther"}

\* An issue a processor may add on its own (e.g. an unused-directive report).
ExtraIssue == [id |-> 0, FromLinter |-> "nolint"]

\* s without its k-th element.
DropAt(s, k) == SubSeq(s, 1, k - 1) \o SubSeq(s, k + 1, Len(s))

\* What a processor's Process may return for a given input: on success nil,
\* the input, the input with its first issue filtered out, or the input with
\* one issue added; on error some partial output.
ProcessReturns(in) ==
  { [out |-> o, err |-> FALSE] :
      o \in {NilSlice, in, Slice(Append(in.elems, ExtraIssue))}
            \cup { Slice(DropAt(in.elems, k)) : k \in {1} \cap (1..Len(in.elems)) } }
  \cup
  { [out |-> Slice(<<ExtraIssue>>), err |-> TRUE] }

\* ---------------------------------------------------------------- state
VARIABLES
  linters,          \* Run's argument: the configured engines (their names)
  Processors,       \* Runner.Processors (the stage names, in chain order)
  env,              \* value of GOLANGCI_COM_RUN
  pc,               \* position in Run / processLintResults
  li,               \* index of the next linter in Run's loop
  issues,           \* Run: merged issues; processIssues: the current slice
  runErr,           \* Run's runErr
  crashed,          \* a panic left runLinterSafe and unwound Run
  results,          \* per engine: what it did and what runLinterSafe returned
  pi,               \* index of the next processor in processIssues
  fi,               \* index of the next processor to Finish
  inIssues,         \* processLintResults' argument
  outIssues,        \* processLintResults' outIssues
  issuesBefore,
  issuesAfter,
  statPerProcessor, \* map name -> processorStat
  stages,           \* per Process call: input, output, err
  trace,            \* calls made so far, in order
  retIssues,        \* Run's first result
  retErr,           \* Run's second result
  lintCtx,          \* the caller's *linter.Context
  cfg,              \* NewRunner's configuration
  newErr            \* NewRunner's error result

vars == <<linters, Processors, env, pc, li, issues, runErr, crashed, results,
          pi, fi, inIssues, outIssues, issuesBefore, issuesAfter,
          statPerProcessor, stages, trace, retIssues, retErr,
          lintCtx, cfg, newErr>>

\* ---------------------------------------------------------------- runLinterSafe
stampAlways(sl, name) ==
  [sl EXCEPT !.elems = [k \in 1..Len(sl.elems) |->
      [sl.elems[k] EXCEPT !.FromLinter = name]]]

\* The loop that fills an empty FromLinter with the linter's name.
stampFromLinter(sl, name) ==
  [sl EXCEPT !.elems = [k \in 1..Len(sl.elems) |->
      IF sl.elems[k].FromLinter = ""
      THEN [sl.elems[k] EXCEPT !.FromLinter = name]
      ELSE sl.elems[k]]]

recoversOnlyDiagnosed(kind) == kind = "panicDiagnosed"

\* The deferred recover(): every panic is stopped here.
recovers(kind) == kind \in {"panicDiagnosed", "panicOther"}

\* err as left by the deferred function for a panic of the given class.
recoveredErr(kind, i) ==
  IF kind = "panicDiagnosed" THEN NilErr ELSE PanicOccurredErr(i)

\* r.Log and its named children; the context the caller passes to Run.
RunnerLog == <<"runner">>
Child(log, name) == Append(log, name)
CallerLintCtx == [Log |-> <<"lintctx">>, Cfg |-> <<"cfg">>]

\* specificLintCtx := *lintCtx; specificLintCtx.Log = r.Log.Child(lc.Name())
specificLintCtx(ctx, name) == [ctx EXCEPT !.Log = Child(RunnerLog, name)]

\* What the i-th engine leaves in the context it was handed.
engineWrites(handed, i) == [handed EXCEPT !.Cfg = <<"cfg", "engine", i>>]

callerCtxAliased(ctx, handedAfter) == handedAfter

\* The caller's context after the engine ran on its own copy.
callerCtxAfter(ctx, handedAfter) == ctx

\* runLinterSafe for engine i named name, whose Run does `kind` with `out`.
runLinterSafe(i, name, kind, out) ==
  CASE kind = "ok" ->
         [ret |-> stampFromLinter(out, name), err |-> NilErr, panics |-> FALSE]
    [] kind = "error" ->
         [ret |-> NilSlice, err |-> ReturnedErr(i), panics |-> FALSE]
    [] OTHER ->
         [ret |-> NilSlice, err |-> recoveredErr(kind, i),
          panics |-> ~recovers(kind)]

\* ---------------------------------------------------------------- Run's helpers
prependIssues(a, b) ==
  IF len(b) = 0 THEN a ELSE Slice(b.elems \o a.elems)

\* append(issues, linterIssues...)
appendIssues(a, b) ==
  IF len(b) = 0 THEN a ELSE Slice(a.elems \o b.elems)

recordRunErrAlways(old, err, e) ==
  IF err # NilErr THEN err ELSE old

\* runErr after one engine came back with err.
recordRunErr(old, err, e) ==
  IF err # NilErr /\ e = "" THEN err ELSE old

\* issues after one engine came back with (linterIssues, err).
mergeIssues(old, linterIssues, err) ==
  IF err # NilErr THEN old ELSE appendIssues(old, linterIssues)

\* ---------------------------------------------------------------- NewRunner
\* The configuration values NewRunner reads.  A pattern list is "none",
\* "valid" or "invalid" (some pattern does not compile).
PatternLists == {"none", "valid", "invalid"}
Configs ==
  [UseDefaultExcludes : BOOLEAN, ExcludePatterns : {"none", "valid"},
   SkipFiles : PatternLists, SkipDirs : PatternLists,
   UseDefaultSkipDirs : BOOLEAN, ExcludeRules : {"none", "valid"},
   Diff : BOOLEAN]
DefaultConfig ==
  [UseDefaultExcludes |-> TRUE, ExcludePatterns |-> "none",
   SkipFiles |-> "none", SkipDirs |-> "none", UseDefaultSkipDirs |-> TRUE,
   ExcludeRules |-> "none", Diff |-> FALSE]

\* NewSkipFiles or NewSkipDirs returned an error.
newRunnerFails(c) == c.SkipFiles = "invalid" \/ c.SkipDirs = "invalid"

newRunnerChainDiffOptional(c) ==
  IF c.Diff THEN NewRunnerProcessors
  ELSE SelectSeq(NewRunnerProcessors, LAMBDA n : n # "Diff")

\* The Processors of the Runner that NewRunner returns.
newRunnerChain(c) == NewRunnerProcessors

InitNew ==
  /\ cfg \in Configs
  /\ pc = "new"
  /\ linters = <<>>
  /\ Processors = <<>>
  /\ env \in EnvValues
  /\ li = 1
  /\ issues = NilSlice
  /\ runErr = NilErr
  /\ crashed = FALSE
  /\ results = <<>>
  /\ pi = 0
  /\ fi = 0
  /\ inIssues = NilSlice
  /\ outIssues = NilSlice
  /\ issuesBefore = 0
  /\ issuesAfter = 0
  /\ statPerProcessor = <<>>
  /\ stages = <<>>
  /\ trace = <<>>
  /\ retIssues = NilSlice
  /\ retErr = NilErr
  /\ lintCtx = CallerLintCtx
  /\ newErr = FALSE

\* NewRunner(cfg, ...): an error of NewSkipFiles or NewSkipDirs is returned
\* with a nil Runner, otherwise the Runner with its chain.
NewRunner ==
  /\ pc = "new"
  /\ IF newRunnerFails(cfg)
     THEN /\ newErr' = TRUE
          /\ Processors' = <<>>
          /\ pc' = "newfailed"
     ELSE /\ newErr' = FALSE
          /\ Processors' = newRunnerChain(cfg)
          /\ pc' = "built"
  /\ UNCHANGED <<linters, env, li, issues, runErr, crashed, results, pi, fi,
                 inIssues, outIssues, issuesBefore, issuesAfter,
                 statPerProcessor, stages, trace, retIssues, retErr,
                 lintCtx, cfg>>

NextNew == NewRunner

SpecNew == InitNew /\ [][NextNew]_vars

\* ---------------------------------------------------------------- Run
Init ==
  /\ linters \in LinterLists
  /\ Processors \in ProcessorChains
  /\ env \in EnvValues
  /\ pc = "linters"
  /\ li = 1
  /\ issues = NilSlice
  /\ runErr = NilErr
  /\ crashed = FALSE
  /\ results = <<>>
  /\ pi = 0
  /\ fi = 0
  /\ inIssues = NilSlice
  /\ outIssues = NilSlice
  /\ issuesBefore = 0
  /\ issuesAfter = 0
  /\ statPerProcessor = <<>>
  /\ stages = <<>>
  /\ trace = <<>>
  /\ retIssues = NilSlice
  /\ retErr = NilErr
  /\ lintCtx = CallerLintCtx
  /\ cfg = DefaultConfig
  /\ newErr = FALSE

\* One iteration of Run's loop over linters.
RunLinter ==
  /\ pc = "linters"
  /\ li <= Len(linters)
  /\ \E kind \in EngineKinds, out \in EngineOutputs(li) :
       /\ kind \in {"panicDiagnosed", "panicOther"} => out = NilSlice
       /\ kind = "error" => out \in EngineErrorOutputs(li)
       /\ LET r == runLinterSafe(li, linters[li], kind, out)
              handed == specificLintCtx(lintCtx, linters[li])
          IN /\ results' = Append(results, [kind |-> kind, out |-> out,
                                            ret |-> r.ret, err |-> r.err,
                                            ctx |-> handed])
             /\ lintCtx' = callerCtxAfter(lintCtx, engineWrites(handed, li))
             /\ trace' = Append(trace, <<"Run", li>>)
             /\ IF r.panics
                THEN /\ crashed' = TRUE
                     /\ pc' = "done"
                     /\ UNCHANGED <<issues, runErr, li>>
                ELSE /\ issues' = mergeIssues(issues, r.ret, r.err)
                     /\ runErr' = recordRunErr(runErr, r.err, env)
                     /\ li' = li + 1
                     /\ UNCHANGED <<crashed, pc>>
  /\ UNCHANGED <<linters, Processors, env, pi, fi, inIssues, outIssues,
                 issuesBefore, issuesAfter, statPerProcessor, stages,
                 retIssues, retErr, cfg, newErr>>

\* ---------------------------------------------------------------- processLintResults
entersChainAlways(in) == TRUE

\* The guard around the call of processIssues.
entersChain(in) == len(in) # 0

finalizeOnlyAfterChain(procs, ran) == IF ran THEN 1 ELSE Len(procs) + 1

\* The finalize loop starts at the first processor whether or not the
\* chain ran.
finalizeFrom(procs, ran) == 1

\* Entry of processLintResults(issues): the chain is entered only for a
\* non-empty argument.
StartProcessing ==
  /\ pc = "linters"
  /\ li > Len(linters)
  /\ inIssues' = issues
  /\ IF entersChain(issues)
     THEN /\ issuesBefore' = issuesBefore + len(issues)
          /\ pc' = "process"
          /\ pi' = 1
          /\ fi' = fi
     ELSE /\ issuesBefore' = issuesBefore
          /\ pc' = "finish"
          /\ pi' = pi
          /\ fi' = finalizeFrom(Processors, FALSE)
  /\ UNCHANGED <<linters, Processors, env, li, issues, runErr, crashed,
                 results, outIssues, issuesAfter, statPerProcessor, stages,
                 trace, retIssues, retErr,
                 lintCtx, cfg, newErr>>

\* ---------------------------------------------------------------- processIssues
nextIssuesTakesOutput(cur, newIssues, err) ==
  IF newIssues.isNil THEN Slice(<<>>) ELSE newIssues

nextIssuesKeepsInput(cur, newIssues, err) == cur

nextIssuesKeepsNil(cur, newIssues, err) ==
  IF err THEN cur ELSE newIssues

\* The slice carried to the next stage.
nextIssues(cur, newIssues, err) ==
  LET chosen == IF err THEN cur ELSE newIssues
  IN IF chosen.isNil THEN Slice(<<>>) ELSE chosen

statOf(stat, name) ==
  IF name \in DOMAIN stat THEN stat[name] ELSE [inCount |-> 0, outCount |-> 0]

nextStatAlsoOnError(stat, name, cur, newIssues, err) ==
  [n \in (DOMAIN stat) \cup {name} |->
     IF n = name
     THEN [inCount |-> statOf(stat, name).inCount + len(cur),
           outCount |-> statOf(stat, name).outCount + len(newIssues)]
     ELSE stat[n]]

\* statPerProcessor after one stage: counted only when Process succeeded.
nextStat(stat, name, cur, newIssues, err) ==
  IF err THEN stat
  ELSE [n \in (DOMAIN stat) \cup {name} |->
          IF n = name
          THEN [inCount |-> statOf(stat, name).inCount + len(cur),
                outCount |-> statOf(stat, name).outCount + len(newIssues)]
          ELSE stat[n]]

\* One iteration of processIssues' loop over r.Processors.
ProcessStage ==
  /\ pc = "process"
  /\ pi <= Len(Processors)
  /\ \E r \in ProcessReturns(issues) :
       /\ issues' = nextIssues(issues, r.out, r.err)
       /\ statPerProcessor' = nextStat(statPerProcessor, Processors[pi],
                                       issues, r.out, r.err)
       /\ stages' = Append(stages, [in |-> issues, out |-> r.out, err |-> r.err])
  /\ trace' = Append(trace, <<"Process", pi>>)
  /\ pi' = pi + 1
  /\ UNCHANGED <<linters, Processors, env, pc, li, runErr, crashed, results,
                 fi, inIssues, outIssues, issuesBefore, issuesAfter,
                 retIssues, retErr,
                 lintCtx, cfg, newErr>>

\* processIssues returns; processLintResults stores the result and its length.
ProcessReturn ==
  /\ pc = "process"
  /\ pi > Len(Processors)
  /\ outIssues' = issues
  /\ issuesAfter' = issuesAfter + len(issues)
  /\ pc' = "finish"
  /\ fi' = finalizeFrom(Processors, TRUE)
  /\ UNCHANGED <<linters, Processors, env, li, issues, runErr, crashed,
                 results, pi, inIssues, issuesBefore, statPerProcessor,
                 stages, trace, retIssues, retErr,
                 lintCtx, cfg, newErr>>

\* One iteration of the finalize loop.
FinishStage ==
  /\ pc = "finish"
  /\ fi <= Len(Processors)
  /\ trace' = Append(trace, <<"Finish", fi>>)
  /\ fi' = fi + 1
  /\ UNCHANGED <<linters, Processors, env, pc, li, issues, runErr, crashed,
                 results, pi, inIssues, outIssues, issuesBefore, issuesAfter,
                 statPerProcessor, stages, retIssues, retErr,
                 lintCtx, cfg, newErr>>

\* processLintResults returns outIssues and Run returns it with runErr.
ReturnRun ==
  /\ pc = "finish"
  /\ fi > Len(Processors)
  /\ retIssues' = outIssues
  /\ retErr' = runErr
  /\ pc' = "done"
  /\ UNCHANGED <<linters, Processors, env, li, issues, runErr, crashed,
                 results, pi, fi, inIssues, outIssues, issuesBefore,
                 issuesAfter, statPerProcessor, stages, trace,
                 lintCtx, cfg, newErr>>

Next ==
  \/ RunLinter
  \/ StartProcessing
  \/ ProcessStage
  \/ ProcessReturn
  \/ FinishStage
  \/ ReturnRun

Spec == Init /\ [][Next]_vars

Returned == pc = "done" /\ ~crashed

\* ---------------------------------------------------------------- properties
RunCalls == SelectSeq(trace, LAMBDA e : e[1] = "Run")
ProcessCalls == SelectSeq(trace, LAMBDA e : e[1] = "Process")
FinishCalls == SelectSeq(trace, LAMBDA e : e[1] = "Finish")
InOrder(tag, n) == [k \in 1..n |-> <<tag, k>>]
Failed(k) == results[k].kind # "ok"

\* C1: Run invokes every configured engine exactly once, in configured
\* order; no error and no panic of an engine leaves Run or keeps the
\* engines after it from being invoked.
C1_EveryEngineInvokedOnceInOrder ==
  /\ ~crashed
  /\ RunCalls = InOrder("Run", li - 1)
  /\ pc # "linters" => li = Len(linters) + 1

C1_Witness ==
  /\ Returned
  /\ Len(linters) = 2
  /\ results[1].kind \in {"panicDiagnosed", "panicOther", "error"}
  /\ results[2].kind = "ok"
  /\ RunCalls = <<<<"Run", 1>>, <<"Run", 2>>>>

\* What the engines up to the k-th returned, failed engines left out.
RECURSIVE EngineIssuesUpTo(_)
EngineIssuesUpTo(k) ==
  IF k = 0 THEN <<>>
  ELSE EngineIssuesUpTo(k - 1) \o
       (IF Failed(k) THEN <<>> ELSE results[k].out.elems)

\* s is t, issue by issue, up to a FromLinter field that was empty in t.
SameIssues(s, t) ==
  /\ Len(s) = Len(t)
  /\ \A j \in 1..Len(t) :
       /\ s[j].id = t[j].id
       /\ t[j].FromLinter # "" => s[j] = t[j]

AllStagesKeep ==
  \A j \in 1..Len(stages) : ~stages[j].err /\ stages[j].out = stages[j].in

\* C2: the sequence handed to the processor chain is the concatenation, in
\* engine order, of what the engines that did not fail returned, each in
\* its own order; a failed engine contributes nothing.  When no stage drops
\* or adds anything the result of the run is that sequence.
C2_MergedIsConcatenationOfSuccessful ==
  /\ (pc = "linters" /\ ~crashed) =>
        SameIssues(issues.elems, EngineIssuesUpTo(li - 1))
  /\ (pc \in {"process", "finish"} \/ Returned) =>
        SameIssues(inIssues.elems, EngineIssuesUpTo(Len(linters)))
  /\ (Returned /\ len(inIssues) # 0 /\ AllStagesKeep) =>
        SameIssues(retIssues.elems, EngineIssuesUpTo(Len(linters)))

C2_Witness ==
  /\ Returned
  /\ Len(linters) = 2 /\ Len(Processors) = 2
  /\ results[1].kind = "ok" /\ len(results[1].out) = 2
  /\ results[2].kind = "ok" /\ len(results[2].out) = 1
  /\ AllStagesKeep
  /\ <<retIssues.elems[1].id, retIssues.elems[2].id, retIssues.elems[3].id>>
       = <<IssueId(1, 1), IssueId(1, 2), IssueId(2, 1)>>

C2_WitnessFailedContributesNothing ==
  /\ pc = "process" /\ pi = 1
  /\ Len(linters) = 2
  /\ results[1].kind = "error" /\ len(results[1].out) = 1
  /\ results[2].kind = "ok" /\ len(results[2].out) = 2
  /\ len(inIssues) = 2

Panicked(k) == results[k].kind \in {"panicDiagnosed", "panicOther"}
SomeEngineFailed == \E k \in 1..Len(results) : Failed(k)
SomeStageFailed == \E j \in 1..Len(stages) : stages[j].err

\* C3: for every engine invocation that panics, with a panic value of
\* either class, runLinterSafe returns a non-nil error and no issues.
C3_PanicBecomesError ==
  \A k \in 1..Len(results) :
    Panicked(k) => results[k].err # NilErr /\ len(results[k].ret) = 0

\* C4: with GOLANGCI_COM_RUN empty, a run in which at least one engine
\* returned an error or terminated abnormally returns a non-nil error.
C4_FailFastReportsFailure ==
  (Returned /\ env = "" /\ SomeEngineFailed) => retErr # NilErr

\* C5: Run returns a non-nil error only if an engine failed and
\* GOLANGCI_COM_RUN is empty; when no engine failed or the variable is set
\* the error is nil, whatever the processor stages reported.
C5_ErrorOnlyFromEngineUnderFailFast ==
  Returned =>
    /\ retErr # NilErr => (SomeEngineFailed /\ env = "")
    /\ (~SomeEngineFailed \/ env # "") => retErr = NilErr
    /\ retIssues = outIssues

C5_Witness ==
  /\ Returned
  /\ env # ""
  /\ SomeEngineFailed
  /\ SomeStageFailed
  /\ retErr = NilErr
  /\ len(retIssues) > 0

ChainRan == len(inIssues) # 0
ChainReturned == pc = "finish" \/ Returned

\* C6: when a stage's Process reports an error its output is discarded:
\* the next stage receives the sequence the failing stage received, the
\* remaining stages are still invoked, and a failing last stage leaves the
\* sequence it received as the chain's result.
C6_FailedStagePassesInputThrough ==
  /\ \A j \in 1..Len(stages) :
       stages[j].err =>
         /\ j < Len(stages) => stages[j + 1].in = stages[j].in
         /\ (j = Len(stages) /\ pc = "process") => issues = stages[j].in
         /\ (j = Len(Processors) /\ ChainReturned) => outIssues = stages[j].in
  /\ (ChainReturned /\ ChainRan) => Len(stages) = Len(Processors)

C6_Witness ==
  /\ Returned
  /\ Len(Processors) = 2
  /\ len(inIssues) = 3
  /\ stages[1].err /\ stages[1].out # stages[1].in
  /\ stages[2].in = inIssues
  /\ stages[2].err
  /\ retIssues = inIssues

\* C7: the sequence Run returns is never nil; with nothing to return it is
\* an empty non-nil sequence.
C7_ResultNeverNil ==
  Returned => ~retIssues.isNil

\* C8: every issue of a successful runLinterSafe call is the engine's
\* issue with FromLinter set once: an empty field gets the engine's name, a
\* non-empty one is kept, and with a non-empty engine name no field is empty.
C8_FromLinterStampedOnce ==
  \A k \in 1..Len(results) :
    results[k].kind = "ok" =>
      /\ results[k].err = NilErr
      /\ len(results[k].ret) = len(results[k].out)
      /\ \A j \in 1..len(results[k].out) :
           LET o == results[k].out.elems[j]
               r == results[k].ret.elems[j]
           IN /\ r.id = o.id
              /\ o.FromLinter = "" => r.FromLinter = linters[k]
              /\ o.FromLinter # "" => r.FromLinter = o.FromLinter
              /\ linters[k] # "" => r.FromLinter # ""

C8_Witness ==
  /\ Len(results) >= 1
  /\ results[1].kind = "ok"
  /\ len(results[1].out) = 2
  /\ results[1].out.elems[1].FromLinter = ""
  /\ results[1].ret.elems[1].FromLinter = "govet"
  /\ results[1].ret.elems[2].FromLinter = "meta"

\* No call tagged `later` follows a call tagged `earlier` in the trace.
NeverAfter(later, earlier) ==
  \A a, b \in 1..Len(trace) :
    (a < b /\ trace[a][1] = earlier) => trace[b][1] # later

\* C9: in every run Finish is invoked exactly once on every stage, in
\* chain order, and no Process call follows a Finish call.
C9_FinishOnceOnEveryStage ==
  /\ NeverAfter("Process", "Finish")
  /\ (pc = "finish") => FinishCalls = InOrder("Finish", fi - 1)
  /\ (pc \in {"linters", "process"}) => FinishCalls = <<>>
  /\ Returned => FinishCalls = InOrder("Finish", Len(Processors))

C9_Witness ==
  /\ Returned
  /\ Len(Processors) = 2
  /\ ~ChainRan
  /\ FinishCalls = <<<<"Finish", 1>>, <<"Finish", 2>>>>

C9_WitnessAfterFailedStages ==
  /\ Returned
  /\ Len(Processors) = 2
  /\ stages # <<>> /\ \A j \in 1..Len(stages) : stages[j].err
  /\ trace[Len(trace)] = <<"Finish", 2>>

\* C10 as stated: in every run each stage's Process is invoked exactly
\* once, and no Process call happens before the last engine has finished.
C10_ProcessOnceInEveryRun ==
  /\ NeverAfter("Run", "Process")
  /\ ProcessCalls # <<>> => Len(RunCalls) = Len(linters)
  /\ Returned => ProcessCalls = InOrder("Process", Len(Processors))

\* C10 amended: in every run whose merged issue set is not empty each
\* stage's Process is invoked exactly once, in a run whose merged issue set
\* is empty no Process is invoked, and no Process call happens before the
\* last engine has finished.
C10_ProcessOnceWhenMergedNonEmpty ==
  /\ NeverAfter("Run", "Process")
  /\ ProcessCalls # <<>> => Len(RunCalls) = Len(linters)
  /\ (Returned /\ ChainRan) => ProcessCalls = InOrder("Process", Len(Processors))
  /\ (Returned /\ ~ChainRan) => ProcessCalls = <<>>

C10_Witness ==
  /\ Returned
  /\ Len(linters) = 2 /\ Len(Processors) = 2
  /\ ChainRan
  /\ SubSeq(trace, 1, 4) = <<<<"Run", 1>>, <<"Run", 2>>, <<"Process", 1>>, <<"Process", 2>>>>

\* The last stage before the j-th whose Process succeeded, 0 if none.
LastSucceededBefore(j) ==
  LET ok == { i \in 1..(j - 1) : ~stages[i].err }
  IN IF ok = {} THEN 0 ELSE CHOOSE i \in ok : \A h \in ok : h <= i

\* C11: Process is invoked on the stages in the order of the Processors
\* list, none skipped; the input of a stage is the output of the nearest
\* preceding stage whose Process succeeded, the merged set if none did.
C11_StagesInOrderFedByLastSuccess ==
  /\ ProcessCalls = InOrder("Process", Len(stages))
  /\ pc = "process" => pi = Len(stages) + 1
  /\ (ChainReturned /\ ChainRan) => Len(stages) = Len(Processors)
  /\ \A j \in 1..Len(stages) :
       LET i == LastSucceededBefore(j)
       IN IF i = 0 THEN stages[j].in = inIssues
          ELSE stages[j].in.elems = stages[i].out.elems

C11_Witness ==
  /\ Returned
  /\ Len(stages) = 2
  /\ ~stages[1].err
  /\ len(stages[1].out) = len(stages[1].in) - 1
  /\ stages[2].in = stages[1].out
  /\ stages[2].in # inIssues

DistinctStageNames ==
  \A a, b \in 1..Len(Processors) : a # b => Processors[a] # Processors[b]

\* Issues the j-th stage received and passed on in this run.
Received(j) == IF j <= Len(stages) THEN len(stages[j].in) ELSE 0
Emitted(j) ==
  IF j <= Len(stages)
  THEN (IF stages[j].err THEN len(stages[j].in) ELSE len(stages[j].out))
  ELSE 0

\* C13 as stated: after a run with pairwise distinct stage names every
\* stage, failed or not, has inCount = issues received and outCount = issues
\* emitted.
C13_StatOfEveryStage ==
  (ChainReturned /\ DistinctStageNames) =>
    \A j \in 1..Len(Processors) :
      /\ statOf(statPerProcessor, Processors[j]).inCount = Received(j)
      /\ statOf(statPerProcessor, Processors[j]).outCount = Emitted(j)

\* C13 amended: after a run with pairwise distinct stage names every stage
\* whose Process succeeded has inCount = issues received and outCount =
\* issues returned; a stage whose Process reported an error, or that was not
\* invoked, has no stat (both counts 0).
C13_StatOfSucceededStages ==
  (ChainReturned /\ DistinctStageNames) =>
    \A j \in 1..Len(Processors) :
      IF j <= Len(stages) /\ ~stages[j].err
      THEN /\ statPerProcessor[Processors[j]].inCount = len(stages[j].in)
           /\ statPerProcessor[Processors[j]].outCount = len(stages[j].out)
      ELSE Processors[j] \notin DOMAIN statPerProcessor

C13_Witness ==
  /\ Returned
  /\ Len(Processors) = 2 /\ DistinctStageNames
  /\ len(inIssues) = 3
  /\ stages[1].err
  /\ Processors[1] \notin DOMAIN statPerProcessor
  /\ ~stages[2].err
  /\ statPerProcessor[Processors[2]] = [inCount |-> 3, outCount |-> 2]

\* C14: no stage of processIssues is handed a nil sequence; a nil output of
\* a successful stage reaches the next stage as an empty non-nil sequence.
C14_NoStageGetsNil ==
  /\ \A j \in 1..Len(stages) : ~stages[j].in.isNil
  /\ pc = "process" => ~issues.isNil
  /\ \A j \in 1..(Len(stages) - 1) :
       (~stages[j].err /\ stages[j].out.isNil) => stages[j + 1].in = Slice(<<>>)

C14_Witness ==
  /\ Len(stages) = 2
  /\ ~stages[1].err /\ stages[1].out.isNil
  /\ stages[2].in = Slice(<<>>)

\* s is an order-preserving sub-sequence of t.
RECURSIVE IsSubSeqFrom(_, _, _, _)
IsSubSeqFrom(s, t, i, j) ==
  IF i > Len(s) THEN TRUE
  ELSE IF j > Len(t) THEN FALSE
  ELSE IF s[i] = t[j] THEN IsSubSeqFrom(s, t, i + 1, j + 1)
  ELSE IsSubSeqFrom(s, t, i, j + 1)
IsSubSeq(s, t) == IsSubSeqFrom(s, t, 1, 1)
NoDuplicates(s) == \A a, b \in 1..Len(s) : a # b => s[a] # s[b]

AllStagesFilter ==
  \A j \in 1..Len(stages) :
    ~stages[j].err => IsSubSeq(stages[j].out.elems, stages[j].in.elems)

\* The sequence carried on after the j-th stage.
AfterStage(j) ==
  IF j < Len(stages) THEN stages[j + 1].in
  ELSE IF pc = "process" THEN issues ELSE outIssues

\* C15: if every successful Process returned a sub-sequence of its input
\* then, whatever stages failed, the sequence after every stage and the
\* result are sub-sequences of the merged set without duplicates, every
\* stat has outCount <= inCount and the after-count is <= the before-count.
C15_FilteringNeverGrows ==
  AllStagesFilter =>
    /\ \A j \in 1..Len(stages) :
         /\ IsSubSeq(AfterStage(j).elems, inIssues.elems)
         /\ NoDuplicates(AfterStage(j).elems)
    /\ \A n \in DOMAIN statPerProcessor :
         statPerProcessor[n].outCount <= statPerProcessor[n].inCount
    /\ ChainReturned => issuesAfter <= issuesBefore
    /\ Returned => /\ IsSubSeq(retIssues.elems, inIssues.elems)
                   /\ NoDuplicates(retIssues.elems)

C15_Witness ==
  /\ Returned
  /\ AllStagesFilter
  /\ Len(stages) = 2
  /\ stages[1].err
  /\ ~stages[2].err
  /\ issuesBefore = 3 /\ issuesAfter = 2
  /\ len(retIssues) = 2

LastFailedEngine ==
  CHOOSE k \in 1..Len(results) :
    Failed(k) /\ \A h \in 1..Len(results) : Failed(h) => h <= k

\* C16: with GOLANGCI_COM_RUN empty the error Run returns is the error of
\* the last engine that failed, and a later success does not clear it.
C16_LastFailureIsReturned ==
  (Returned /\ env = "" /\ SomeEngineFailed) =>
    /\ retErr # NilErr
    /\ retErr.engine = LastFailedEngine

\* C17: engine execution leaves the caller's context as it was before Run,
\* Log included; every engine is started on a copy with the caller's contents
\* and a logger named after the engine.
C17_CallerContextUnchanged ==
  /\ lintCtx = CallerLintCtx
  /\ \A k \in 1..Len(results) :
       /\ results[k].ctx.Cfg = CallerLintCtx.Cfg
       /\ results[k].ctx.Log = <<"runner", linters[k]>>

C17_Witness ==
  /\ Returned
  /\ Len(results) = 2
  /\ Panicked(1)
  /\ results[2].kind = "ok"
  /\ results[2].ctx.Log = <<"runner", "">>
  /\ lintCtx.Log = <<"lintctx">>

\* The 16 stages of the documented order.
DocumentedStages ==
  <<"Cgo", "PathPrettifier", "SkipFiles", "SkipDirs", "AutogeneratedExclude",
    "IdentifierMarker", "Exclude", "ExcludeRules", "Nolint", "UniqByLine",
    "Diff", "MaxPerFileFromLinter", "MaxSameIssues", "MaxFromLinter",
    "SourceCode", "PathShortener">>

\* C12 as stated: for every configuration for which NewRunner succeeds the
\* chain is the 16 stages of the documented order.
C12_ChainIsDocumentedSixteen ==
  pc = "built" => Processors = DocumentedStages

\* C12 amended: for every configuration for which NewRunner succeeds the
\* chain is the same 17 stages: the documented 16 with the filename
\* unadjuster second, right after the source-location normalization.
C12_ChainIsFixedSeventeen ==
  /\ pc = "built" =>
       /\ ~newErr
       /\ Len(Processors) = 17
       /\ Processors[1] = DocumentedStages[1]
       /\ Processors[2] = "FilenameUnadjuster"
       /\ \A k \in 3..17 : Processors[k] = DocumentedStages[k - 1]
  /\ pc = "newfailed" => newErr /\ Processors = <<>>

C12_Witness ==
  /\ pc = "built"
  /\ cfg.Diff /\ ~cfg.UseDefaultExcludes /\ cfg.SkipDirs = "valid"
  /\ Processors[12] = "Diff"
====
